---- MODULE Spec2Model ----
(***************************************************************************)
(* Model of the reposouls polling engines:                                 *)
(*   - monitor::run          (src/monitor.rs): branch roster + label/sha   *)
(*     diffing against the persisted MonitorState table;                   *)
(*   - run_event_checker     (src/events.rs): identifier-set dedup of      *)
(*     workflow runs, reviews, comments and the merge of a pull request.   *)
(* Each await point of the source is a step of the model.                  *)
(* Specifications:                                                         *)
(*   Spec       monitor::run and the consumer of its channel;              *)
(*   SpecChan   the same with up to MaxQueued messages in flight;          *)
(*   SpecFair   monitor::run under fair scheduling, one branch slow;       *)
(*   SpecEvents run_event_checker, keeping the record of its fetches;      *)
(*   SpecCycle  run_event_checker, keeping the record of each cycle's      *)
(*              events, on a pull request with up to three reviews;        *)
(*   SpecGui    App::update (src/gui.rs), frame by frame, with a sender    *)
(*              of arbitrary events.                                       *)
(***************************************************************************)
EXTENDS Integers, Sequences, FiniteSets, TLC

\* ---------------------------------------------------------------- bounds
MaxChan == 1         \* messages in flight on an mpsc channel
MaxTime == 3         \* timestamps are 0..MaxTime
MaxRun == 2          \* workflow-run ids are 1..MaxRun
MaxQueued == 2       \* messages in flight when the channel's traffic is followed
MaxDt == 2           \* a frame lasts 1..MaxDt quarters of a second

\* ------------------------------------------------------- monitor.rs data
BranchNames == {"main", "feature-x"}
\* commit shas (String), told apart only by equality
Shas == {"9fceb02", "e83c516"}
\* get_branch_status_image yields a String; "" is the "no label" answer
Statuses == {"", "green", "failed"}

NoRec == [last_notified_sha |-> "-", last_notified_status |-> "-"]

\* MonitoredBranch (line 100 lets only non-empty statuses be recorded)
MonitoredBranch == [last_notified_sha : Shas, last_notified_status : Statuses \ {""}]

\* MonitorState.branches: HashMap<String, MonitoredBranch>; NoRec = no entry
MonitorState == [BranchNames -> MonitoredBranch \cup {NoRec}]

EmptyState == [b \in BranchNames |-> NoRec]

\* Vec<String> answers of get_all_branch_names (each branch listed once)
BranchLists ==
    {<<>>} \cup { <<b>> : b \in BranchNames }
           \cup { <<p[1], p[2]>> : p \in { q \in BranchNames \X BranchNames : q[1] # q[2] } }

Range(s) == { s[i] : i \in 1..Len(s) }

\* what one loop iteration saw remotely: ShaNone is the None answer of
\* get_latest_commit_sha (the status is then not fetched)
NoObs == [sha |-> "-", status |-> "unseen"]     \* never polled in this run
Removed == [sha |-> "-", status |-> "removed"]  \* record dropped by retain, not polled since
ShaNone == [sha |-> "None", status |-> "-"]
NoList == <<"?">>

\* --------------------------------------------------------- events.rs data
NotificationEvent ==
    {"CiSuccess", "CiFailure", "PrApproved", "PrChangesRequested", "PrMerged", "PrNewComment"}
PrEvents == {"PrApproved", "PrChangesRequested", "PrMerged", "PrNewComment"}

Times == 0..MaxTime
RunIds == 1..MaxRun
\* reviews and comments are handled one at a time and told apart only by id
ReviewIds == {1, 2}
CommentIds == {1, 2}
\* a pull request with one review more
MoreReviewIds == ReviewIds \cup {3}

\* github.rs: WorkflowRunStatus / WorkflowRunConclusion (the values told apart
\* by the checker, and one representative of the others)
WorkflowRunStatus == {"completed", "in_progress"}
WorkflowRunConclusion == {"success", "failure", "cancelled", "timed_out"}
NoConclusion == "null"

\* github.rs: WorkflowRun {id, status, conclusion}; a run in progress has no
\* conclusion yet
WorkflowRun ==
    [id : RunIds, status : {"completed"}, conclusion : WorkflowRunConclusion]
    \cup [id : RunIds, status : {"in_progress"}, conclusion : {NoConclusion}]

\* the answers of get_workflow_runs_for_branch: at most one entry per run id
\* (per id: not listed, in progress, or completed with a conclusion)
RunOutcome(id, o) ==
    IF o = "in_progress" THEN [id |-> id, status |-> "in_progress", conclusion |-> NoConclusion]
    ELSE [id |-> id, status |-> "completed", conclusion |-> o]

RunAnswers ==
    { { RunOutcome(i, f[i]) : i \in { j \in RunIds : f[j] # "absent" } } :
        f \in [RunIds -> {"absent", "in_progress"} \cup WorkflowRunConclusion] }

\* github.rs: ReviewState
ReviewState == {"APPROVED", "CHANGES_REQUESTED", "COMMENTED"}
\* github.rs: Review {id, state, submitted_at}
Review == [id : MoreReviewIds, state : ReviewState, submitted_at : Times]
\* github.rs: Comment {id, created_at}
Comment == [id : CommentIds, created_at : Times]
\* github.rs: PullRequest {merged, merged_at} as returned by get_pr_details;
\* merged is Option<bool>, merged_at is Option<DateTime> (-1: None)
PullRequest == [merged : {"true", "false", "null"}, merged_at : Times \cup {-1}]

VARIABLES
    file,                 \* content of .reposouls_state.json
    branches,             \* state.branches
    state_changed,        \* local of the poll cycle
    remote_branch_names,  \* local of the poll cycle
    idx,                  \* position of the for loop over remote_branch_names
    mpc,                  \* position of the monitor thread
    gui_chan,             \* messages sent on gui_sender and not yet received
    rx_alive,             \* the Receiver has not been dropped
    \* observation record of the run (history only, never read by the code)
    last_obs,             \* per branch: what its latest loop iteration saw
    prev_names,           \* branch list of the previous cycle (NoList: none)
    same_obs,             \* this cycle has seen what the previous one saw
    cyc_sent,             \* a message was sent in this cycle
    cyc_mutated,          \* state.branches was modified in this cycle
    first_none,           \* per branch: its latest iteration was its first,
                          \* found no record and fetched the label ""
    fs_writable,          \* fs::write on the state file succeeds (the file system
                          \* is writable for the whole run, or for none of it)
    gui_cap,              \* the most messages the run lets pile up in gui_chan
                          \* (the mpsc channel itself is unbounded)
    \* traffic record of gui_chan (history only, never read by the code)
    sent_ahead,           \* messages sent with Ok that the consumer has not yet
                          \* received, in send order
    fifo_ok,              \* every message received so far was the oldest of sent_ahead
    recv_queued,          \* a message was received while MaxQueued were queued
    \* ---- run_event_checker
    start_time,           \* state.start_time
    seen_workflow_runs,   \* state.seen_workflow_runs
    seen_comments,        \* state.seen_comments
    seen_reviews,         \* state.seen_reviews
    pr_is_merged,         \* state.pr_is_merged
    epc,                  \* position of run_event_checker
    iter,                 \* highest id yielded by the running for loop (lists
                          \* come in ascending id order)
    image_chan,           \* events sent on image_sender and not yet received
    image_rx_alive,       \* the Receiver<NotificationEvent> has not been dropped
    \* observation record of the run (history only, never read by the code)
    errs,                 \* fetches that failed in this cycle
    fetched,              \* fetches issued in this cycle
    cyc_send_failed,      \* a send returned Err in this cycle
    failed_items,         \* the items of the latest send that returned Err
    retried,              \* a send was attempted for an item of failed_items
    \* ---- the remote side and the observer of run_event_checker
    pr_review_ids,        \* ids of the reviews the pull request of this run can have
    watch,                \* what the run keeps a record of: "fetches" (errs ..
                          \* retried) or "events" (ci_new .. cyc_rev_at, kept for
                          \* the whole cycle, and whether a fetch or send failed)
    ci_new,               \* conclusions of the new completed runs found by the
                          \* latest check_workflow_run
    ci_event,             \* its event_to_send ("unchecked": not run, or forgotten)
    cyc_events,           \* events handed to sender.send in this cycle
    cyc_reviews,          \* states of the reviews found new in this cycle, in
                          \* scan order
    cyc_rev_at,           \* submitted_at of the latest of them (0: none yet), or
                          \* -1 when they did not come in increasing time order
    ci_done,              \* ids of the completed runs in the answer of the latest
                          \* check_workflow_run
    ci_open,              \* ids of the runs of that answer that are not completed
    sent_items,           \* what the step just taken by run_event_checker handed
                          \* an event to sender.send for ({}: it sent nothing)
    sent_at,              \* the timestamp of that item (-1: none, or a run)
    app,                  \* the App of gui.rs: state, animation_time, texture
    frame_dt,             \* unstable_dt of the latest frame (0: no frame yet)
    took                  \* the latest frame received an event

mvars == <<file, branches, state_changed, remote_branch_names, idx, mpc, gui_chan, rx_alive,
           fs_writable, gui_cap>>
cvars == <<sent_ahead, fifo_ok, recv_queued>>
hvars == <<last_obs, prev_names, same_obs, cyc_sent, cyc_mutated, first_none>>
gvars == <<app, frame_dt, took>>
wvars == <<pr_review_ids, watch, gvars>>
evars == <<start_time, seen_workflow_runs, seen_comments, seen_reviews, pr_is_merged, epc,
           iter, image_chan, image_rx_alive, wvars>>
civars == <<ci_new, ci_event, ci_done, ci_open>>
rvvars == <<cyc_reviews, cyc_rev_at>>
cyvars == <<cyc_events, rvvars>>
lsvars == <<sent_items, sent_at>>
ehvars == <<errs, fetched, cyc_send_failed, failed_items, retried, civars, cyvars, lsvars>>
vars == <<mvars, hvars, cvars, evars, ehvars>>

\* load_state().unwrap_or_else(default)
\* the file is missing (Ok(default)), unreadable/unparsable (Err), or holds a table
FileContents ==
    { [kind |-> k, content |-> EmptyState] : k \in {"missing", "corrupt"} }
    \cup { [kind |-> "table", content |-> t] : t \in MonitorState }

\* the tables found at startup: any subset of the branches, recorded at the
\* first sha with the label "green"
StartRec == [last_notified_sha |-> "9fceb02", last_notified_status |-> "green"]
StartFiles ==
    { f \in FileContents : \A b \in BranchNames : f.content[b] \in {NoRec, StartRec} }

\* variant: a file that cannot be parsed is read as a table of known branches
M_load_state(f) ==
    IF f.kind = "table" THEN f.content
    ELSE IF f.kind = "missing" THEN EmptyState
    ELSE [b \in BranchNames |-> StartRec]

\* load_state().unwrap_or_else(|e| MonitorState::default()) (lines 31-37, 49-52)
load_state(f) == IF f.kind = "table" THEN f.content ELSE EmptyState

\* variant: a retain that drops nothing
M_retain(br, names) == br

\* state.branches.retain(|k, _| remote_branch_names.contains(k))
retain(br, names) == [b \in BranchNames |-> IF b \in Range(names) THEN br[b] ELSE NoRec]

\* variant: no branch is ever taken for new
M_is_new_branch(cur) == FALSE

\* current_branch_state.is_none()
is_new_branch(cur) == cur = NoRec

\* variant: every observation counts as a new status
M_has_new_status(cur, sha, status) == TRUE

\* the match of lines 95-98
has_new_status(cur, sha, status) ==
    IF cur = NoRec THEN TRUE
    ELSE cur.last_notified_sha # sha \/ cur.last_notified_status # status

\* the guard of line 100
must_record(cur, sha, status) == has_new_status(cur, sha, status) /\ status # ""

MonitorInit ==
    /\ file \in StartFiles
    /\ fs_writable \in BOOLEAN
    /\ branches = load_state(file)
    /\ state_changed = FALSE
    /\ remote_branch_names = <<>>
    /\ idx = 1
    /\ mpc = "sleep"
    /\ gui_chan = <<>>
    /\ rx_alive = TRUE
    /\ last_obs = [b \in BranchNames |-> NoObs]
    /\ prev_names = NoList
    /\ same_obs = FALSE
    /\ cyc_sent = FALSE
    /\ cyc_mutated = FALSE
    /\ first_none = [b \in BranchNames |-> FALSE]
    /\ gui_cap \in {MaxChan, MaxQueued}
    /\ sent_ahead = <<>>
    /\ fifo_ok = TRUE
    /\ recv_queued = FALSE

\* EventCheckerState::new(), before the first tick
EventCheckerInit ==
    /\ start_time \in {0, 1}     \* Utc::now(); later timestamps are after it
    /\ seen_workflow_runs = {}
    /\ seen_comments = {}
    /\ seen_reviews = {}
    /\ pr_is_merged = FALSE
    /\ epc = "tick"
    /\ iter = 0
    /\ image_chan = <<>>
    /\ image_rx_alive = TRUE
    /\ errs = {}
    /\ fetched = {}
    /\ cyc_send_failed = FALSE
    /\ failed_items = {}
    /\ retried = FALSE
    /\ pr_review_ids \in {ReviewIds, MoreReviewIds}
    /\ watch \in {"fetches", "events"}
    /\ ci_new = {}
    /\ ci_event = "unchecked"
    /\ cyc_events = {}
    /\ cyc_reviews = <<>>
    /\ cyc_rev_at = 0
    /\ ci_done = {}
    /\ ci_open = {}
    /\ sent_items = {}
    /\ sent_at = -1

\* gui.rs: enum AppState
AppState == {"Idle", "FadingIn", "Displaying", "FadingOut"}

\* self.texture = None; a texture is named by the event whose image it holds
NoTexture == "none"

\* animation_time in quarters of a second: the fades take 0.5 s and the image
\* stays for at least 2.0 s
FadeTime == 2
HoldTime == 8

\* App::new
AppInit ==
    /\ app = [state |-> "Idle", animation_time |-> 0, texture |-> NoTexture]
    /\ frame_dt = 0
    /\ took = FALSE

\* the observer of fetches, a pull request with the reviews of ReviewIds, and
\* a start with timestamp 0 before it
WatchFetches == watch = "fetches" /\ pr_review_ids = ReviewIds /\ start_time = 1

Init == MonitorInit /\ gui_cap = MaxChan /\ EventCheckerInit /\ AppInit /\ WatchFetches

\* ------------------------------------------------------ monitor::run steps

\* github::build_client() fails: sleep and continue
BuildClientFails ==
    /\ mpc = "sleep"
    /\ prev_names' = NoList
    /\ same_obs' = FALSE
    /\ cyc_sent' = FALSE
    /\ cyc_mutated' = FALSE
    /\ UNCHANGED <<mvars, last_obs, first_none, cvars, evars, ehvars>>

\* variant: the Err arm of get_all_branch_names empties the table
M_on_list_err(br) == EmptyState

\* state.branches after the Err arm of get_all_branch_names (lines 77-80: log
\* and return)
on_list_err(br) == br

\* get_all_branch_names fails: the async block returns, nothing is saved
FetchBranchesFails ==
    /\ mpc = "sleep"
    /\ branches' = on_list_err(branches)
    /\ state_changed' = FALSE
    /\ prev_names' = NoList
    /\ same_obs' = FALSE
    /\ cyc_sent' = FALSE
    /\ cyc_mutated' = FALSE
    /\ UNCHANGED <<file, remote_branch_names, idx, mpc, gui_chan, rx_alive,
                   fs_writable, gui_cap, last_obs, first_none, cvars, evars, ehvars>>

\* variant: the poll timer fires whether or not a cycle is running
M_cycle_may_start(pc) == pc \in {"sleep", "loop"}

\* lines 58-59 and 123-126: the thread reaches the elapsed() test only from
\* the end of the previous cycle or from its sleep
cycle_may_start(pc) == pc = "sleep"

\* Step 1: the branch list is fetched and the table is pruned
SyncBranchList ==
    /\ cycle_may_start(mpc)
    /\ \E names \in BranchLists :
        /\ remote_branch_names' = names
        /\ branches' = retain(branches, names)
        /\ same_obs' = (names = prev_names)
        /\ prev_names' = names
        /\ last_obs' = [b \in BranchNames |->
               IF b \in Range(names) THEN last_obs[b]
               ELSE IF branches[b] # NoRec \/ last_obs[b] = Removed THEN Removed
               ELSE NoObs]
        /\ first_none' = [b \in BranchNames |-> b \in Range(names) /\ first_none[b]]
    /\ state_changed' = FALSE
    /\ idx' = 1
    /\ mpc' = "loop"
    /\ cyc_sent' = FALSE
    /\ cyc_mutated' = (branches' # branches)
    /\ UNCHANGED <<file, gui_chan, rx_alive, fs_writable, gui_cap, cvars, evars, ehvars>>

\* variant: a failed commit fetch leaves the for loop
M_next_after_none(i, n) == n + 1

\* line 88, `None => continue`: the loop goes on with the next branch
next_after_none(i, n) == i + 1

\* Step 2, one iteration of the for loop
PollBranch ==
    /\ mpc = "loop"
    /\ idx <= Len(remote_branch_names)
    /\ UNCHANGED <<fs_writable, gui_cap, fifo_ok, recv_queued, evars, ehvars>>
    /\ LET b == remote_branch_names[idx]
           cur == branches[b]
       IN \E latest_sha \in Shas \cup {"None"}, new_status \in Statuses :
          IF latest_sha = "None"
          THEN \* None => continue
               /\ idx' = next_after_none(idx, Len(remote_branch_names))
               /\ last_obs' = [last_obs EXCEPT ![b] = ShaNone]
               /\ same_obs' = (same_obs /\ last_obs[b] = ShaNone)
               /\ first_none' = [first_none EXCEPT ![b] = FALSE]
               /\ UNCHANGED <<file, branches, state_changed, remote_branch_names, mpc,
                              gui_chan, rx_alive, prev_names, cyc_sent, cyc_mutated,
                              sent_ahead>>
          ELSE LET obs == [sha |-> latest_sha, status |-> new_status]
                   rec == [last_notified_sha |-> latest_sha,
                           last_notified_status |-> new_status]
               IN /\ last_obs' = [last_obs EXCEPT ![b] = obs]
                  /\ same_obs' = (same_obs /\ last_obs[b] = obs)
                  /\ first_none' = [first_none EXCEPT ![b] =
                         last_obs[b] \in {NoObs, Removed} /\ cur = NoRec /\ new_status = ""]
                  /\ UNCHANGED <<file, remote_branch_names, rx_alive, prev_names>>
                  /\ IF must_record(cur, latest_sha, new_status)
                     THEN IF ~is_new_branch(cur) /\ ~rx_alive
                          THEN \* gui_sender.send(..).unwrap() panics the thread
                               /\ mpc' = "panicked"
                               /\ UNCHANGED <<branches, state_changed, idx, gui_chan,
                                              cyc_sent, cyc_mutated, sent_ahead>>
                          ELSE /\ IF ~is_new_branch(cur)
                                  THEN /\ Len(gui_chan) < gui_cap
                                       /\ gui_chan' = Append(gui_chan, new_status)
                                       /\ sent_ahead' = Append(sent_ahead, new_status)
                                       /\ cyc_sent' = TRUE
                                  ELSE UNCHANGED <<gui_chan, cyc_sent, sent_ahead>>
                               /\ branches' = [branches EXCEPT ![b] = rec]
                               /\ cyc_mutated' = (cyc_mutated \/ branches' # branches)
                               /\ state_changed' = TRUE
                               /\ idx' = idx + 1
                               /\ mpc' = mpc
                     ELSE /\ idx' = idx + 1
                          /\ UNCHANGED <<branches, state_changed, mpc, gui_chan,
                                         cyc_sent, cyc_mutated, sent_ahead>>

\* save_state(&state): the file after the call; a failed write is only logged
save_state(f, table, ok) == IF ok THEN [kind |-> "table", content |-> table] ELSE f

\* after the loop: save when state_changed, then sleep until the next poll
FinishCycle ==
    /\ mpc = "loop"
    /\ idx > Len(remote_branch_names)
    /\ IF state_changed
       THEN file' = save_state(file, branches, fs_writable)
       ELSE file' = file
    /\ mpc' = "sleep"
    /\ UNCHANGED <<branches, state_changed, remote_branch_names, idx, gui_chan, rx_alive,
                   fs_writable, gui_cap, hvars, cvars, evars, ehvars>>

\* ------------------------------------------------ the consumer of gui_chan

\* variant: a receive that leaves the message in the channel
M_try_recv_rest(ch) == ch

\* Receiver::try_recv: Ok(msg) yields the oldest message, which leaves the channel
try_recv_msg(ch) == Head(ch)
try_recv_rest(ch) == Tail(ch)

\* image_receiver.try_recv() in App::update, Ok arm
GuiRecv ==
    /\ rx_alive
    /\ gui_chan # <<>>
    /\ gui_chan' = try_recv_rest(gui_chan)
    /\ fifo_ok' = (fifo_ok /\ sent_ahead # <<>> /\ try_recv_msg(gui_chan) = Head(sent_ahead))
    /\ sent_ahead' = IF fifo_ok' THEN Tail(sent_ahead) ELSE <<>>
    /\ recv_queued' = (recv_queued \/ Len(gui_chan) >= MaxQueued)
    /\ UNCHANGED <<file, branches, state_changed, remote_branch_names, idx, mpc, rx_alive,
                   fs_writable, gui_cap, hvars, evars, ehvars>>

\* run_gui returns and the Receiver is dropped with what it still holds
GuiDrop ==
    /\ rx_alive
    /\ rx_alive' = FALSE
    /\ gui_chan' = <<>>
    /\ sent_ahead' = <<>>      \* nothing more will be received
    /\ UNCHANGED <<file, branches, state_changed, remote_branch_names, idx, mpc,
                   fs_writable, gui_cap, hvars, fifo_ok, recv_queued, evars, ehvars>>

\* ------------------------------------------------- events.rs: pure parts

\* variant: check_pr_events is called whatever pr_is_merged says
M_pr_checks_enabled(merged) == TRUE

\* run_event_checker: `if !state.pr_is_merged`
pr_checks_enabled(merged) == ~merged

\* variant: a filter that keeps the runs still in progress
M_new_completed_runs(runs, seen) == { r \in runs : r.id \notin seen }

\* check_workflow_run: the filter of lines 85-91
new_completed_runs(runs, seen) ==
    { r \in runs : r.status = "completed" /\ r.id \notin seen }

\* variant: the success test comes first
M_event_to_send(new) ==
    IF \E r \in new : r.conclusion = "success" THEN "CiSuccess"
    ELSE IF \E r \in new : r.conclusion = "failure" THEN "CiFailure"
    ELSE "none"

\* check_workflow_run: lines 97-111 ("none": event_to_send stays None)
event_to_send(new) ==
    IF \E r \in new : r.conclusion = "failure" THEN "CiFailure"
    ELSE IF \E r \in new : r.conclusion = "success" THEN "CiSuccess"
    ELSE "none"

\* check_pr_events: the merge condition of lines 145-148
merge_is_new(pr, start) ==
    pr.merged = "true" /\ pr.merged_at # -1 /\ pr.merged_at > start

\* variant: a review filter without the seen set
M_review_is_new(r, seen, start) == r.submitted_at > start

\* check_pr_events: the review filter of lines 166-167
review_is_new(r, seen, start) == r.id \notin seen /\ r.submitted_at > start

\* check_pr_events: the match of lines 170-176
review_event(st) ==
    IF st = "APPROVED" THEN "PrApproved"
    ELSE IF st = "CHANGES_REQUESTED" THEN "PrChangesRequested"
    ELSE "none"

\* variant: a comment filter without the start-time cutoff
M_comment_is_new(c, seen, start) == c.id \notin seen

\* check_pr_events: the comment filter of lines 194-195
comment_is_new(c, seen, start) == c.id \notin seen /\ c.created_at > start

\* check_pr_events: the Err arm of get_pr_details only logs (line 159)
after_details_err == "reviews_fetch"

\* variant: the Err arm of get_pr_reviews returns from check_pr_events
M_after_reviews_err == "tick"

\* check_pr_events: the Err arm of get_pr_reviews only logs (line 187)
after_reviews_err == "comments_fetch"

\* variant: an insert that forgets what the set held
M_insert(set, x) == {x}

\* HashSet::insert (lines 120, 183 and 202)
insert(set, x) == set \cup {x}

\* where run_event_checker goes after check_workflow_run
after_workflow(merged) == IF pr_checks_enabled(merged) THEN "pr" ELSE "tick"

\* sender.send(event) on image_sender: Ok appends, Err when the receiver is gone
\* the records of the run: x joins the set when the run keeps that record
Noted(set, x) == IF watch = "fetches" THEN set \cup {x} ELSE set
Emitted(event) == IF watch = "events" THEN cyc_events \cup {event} ELSE cyc_events
\* the record of events only keeps that some fetch of the cycle failed
NotedErr(x) == IF watch = "fetches" THEN errs \cup {x} ELSE {"fetch"}

\* items: what the event is sent for; at: the timestamp of that item
SendOk(event, items, at) ==
    /\ image_rx_alive
    /\ Len(image_chan) < MaxChan
    /\ image_chan' = Append(image_chan, event)
    /\ cyc_events' = Emitted(event)
    /\ sent_items' = items
    /\ sent_at' = at
    /\ UNCHANGED <<cyc_send_failed, failed_items, retried>>

SendErr(event, items, at) ==
    /\ ~image_rx_alive
    /\ cyc_events' = Emitted(event)
    /\ sent_items' = items
    /\ sent_at' = at
    /\ cyc_send_failed' = TRUE
    /\ IF watch = "fetches"
       THEN /\ retried' = (retried \/ items \cap failed_items # {})
            /\ failed_items' = items
       ELSE UNCHANGED <<failed_items, retried>>
    /\ UNCHANGED image_chan

\* a step of run_event_checker that hands nothing to sender.send
NoSent == sent_items' = {} /\ sent_at' = -1

NoSend ==
    /\ NoSent
    /\ UNCHANGED <<image_chan, cyc_send_failed, failed_items, retried, cyc_events>>

\* ------------------------------------------------ run_event_checker steps

\* interval.tick().await: a new cycle begins
Tick ==
    /\ epc = "tick"
    /\ epc' = "workflow"
    /\ errs' = {}
    /\ fetched' = {}
    /\ cyc_send_failed' = FALSE
    /\ ci_new' = {}
    /\ ci_event' = "unchecked"
    /\ ci_done' = {}
    /\ ci_open' = {}
    /\ cyc_events' = {}
    /\ cyc_reviews' = <<>>
    /\ cyc_rev_at' = 0
    /\ NoSent
    /\ UNCHANGED <<mvars, hvars, cvars, wvars, start_time, seen_workflow_runs, seen_comments,
                   seen_reviews, pr_is_merged, iter, image_chan, image_rx_alive, failed_items,
                   retried>>

\* check_workflow_run, Err arm
WorkflowRunsErr ==
    /\ epc = "workflow"
    /\ errs' = NotedErr("workflow")
    /\ fetched' = Noted(fetched, "workflow")
    /\ epc' = after_workflow(pr_is_merged)
    /\ NoSent
    /\ UNCHANGED <<mvars, hvars, cvars, wvars, start_time, seen_workflow_runs,
                   seen_comments, seen_reviews,
                   pr_is_merged, iter, image_chan, image_rx_alive, cyc_send_failed,
                   failed_items, retried, civars, cyvars>>

\* check_workflow_run, Ok arm
CheckWorkflowRun ==
    /\ epc = "workflow"
    /\ fetched' = Noted(fetched, "workflow")
    /\ epc' = after_workflow(pr_is_merged)
    /\ \E runs \in RunAnswers :
         LET new == new_completed_runs(runs, seen_workflow_runs)
             event == event_to_send(new)
         IN /\ IF new = {} \/ event = "none"
               THEN NoSend
               ELSE \/ SendOk(event, { <<"run", r.id>> : r \in new }, -1)
                    \/ SendErr(event, { <<"run", r.id>> : r \in new }, -1)
            /\ seen_workflow_runs' = seen_workflow_runs \cup { r.id : r \in new }
            /\ ci_new' = { r.conclusion : r \in new }
            /\ ci_event' = event
            /\ ci_done' = { r.id : r \in { q \in runs : q.status = "completed" } }
            /\ ci_open' = { r.id : r \in { q \in runs : q.status # "completed" } }
    /\ UNCHANGED <<mvars, hvars, cvars, wvars, start_time, seen_comments, seen_reviews,
                   pr_is_merged, iter, image_rx_alive, errs, rvvars>>

\* check_pr_events: get_pr_for_branch
GetPrForBranch ==
    /\ epc = "pr"
    /\ fetched' = Noted(fetched, "pr")
    /\ ci_new' = IF watch = "events" THEN ci_new ELSE {}
    /\ ci_event' = IF watch = "events" THEN ci_event ELSE "unchecked"
    /\ ci_done' = {}
    /\ ci_open' = {}
    /\ \E answer \in {"some", "none", "err"} :
         /\ errs' = IF answer = "err" THEN NotedErr("pr") ELSE errs
         /\ epc' = IF answer = "some" THEN "details" ELSE "tick"
    /\ NoSent
    /\ UNCHANGED <<mvars, hvars, cvars, wvars, start_time, seen_workflow_runs,
                   seen_comments, seen_reviews,
                   pr_is_merged, iter, image_chan, image_rx_alive, cyc_send_failed,
                   failed_items, retried, cyvars>>

\* check_pr_events: get_pr_details, Err arm
PrDetailsErr ==
    /\ epc = "details"
    /\ errs' = NotedErr("details")
    /\ fetched' = Noted(fetched, "details")
    /\ epc' = after_details_err
    /\ NoSent
    /\ UNCHANGED <<mvars, hvars, cvars, wvars, start_time, seen_workflow_runs,
                   seen_comments, seen_reviews,
                   pr_is_merged, iter, image_chan, image_rx_alive, cyc_send_failed,
                   failed_items, retried, civars, cyvars>>

\* check_pr_events: get_pr_details, Ok arm
CheckMerge ==
    /\ epc = "details"
    /\ fetched' = Noted(fetched, "details")
    /\ \E pr_details \in PullRequest :
         IF merge_is_new(pr_details, start_time)
         THEN \/ /\ SendOk("PrMerged", {<<"merge", 0>>}, pr_details.merged_at)
                 /\ pr_is_merged' = TRUE
                 /\ epc' = "tick"
              \/ /\ SendErr("PrMerged", {<<"merge", 0>>}, pr_details.merged_at)
                 /\ pr_is_merged' = pr_is_merged
                 /\ epc' = "tick"
         ELSE /\ NoSend
              /\ pr_is_merged' = pr_is_merged
              /\ epc' = "reviews_fetch"
    /\ UNCHANGED <<mvars, hvars, cvars, wvars, start_time, seen_workflow_runs, seen_comments,
                   seen_reviews, iter, image_rx_alive, errs, civars, rvvars>>

\* check_pr_events: get_pr_reviews, Err arm
PrReviewsErr ==
    /\ epc = "reviews_fetch"
    /\ errs' = NotedErr("reviews")
    /\ fetched' = Noted(fetched, "reviews")
    /\ epc' = after_reviews_err
    /\ NoSent
    /\ UNCHANGED <<mvars, hvars, cvars, wvars, start_time, seen_workflow_runs,
                   seen_comments, seen_reviews,
                   pr_is_merged, iter, image_chan, image_rx_alive, cyc_send_failed,
                   failed_items, retried, civars, cyvars>>

\* check_pr_events: get_pr_reviews, Ok arm: the for loop starts
GetPrReviews ==
    /\ epc = "reviews_fetch"
    /\ fetched' = Noted(fetched, "reviews")
    /\ epc' = "reviews"
    /\ iter' = 0
    /\ NoSent
    /\ UNCHANGED <<mvars, hvars, cvars, wvars, start_time, seen_workflow_runs,
                   seen_comments, seen_reviews,
                   pr_is_merged, image_chan, image_rx_alive, errs, cyc_send_failed,
                   failed_items, retried, civars, cyvars>>

\* one iteration of `for review in reviews`
ReviewsNext ==
    /\ epc = "reviews"
    /\ \E review \in Review :
         /\ review.id \in pr_review_ids
         /\ review.id > iter
         /\ iter' = review.id
         /\ cyc_reviews' =
               IF watch = "events" /\ review_is_new(review, seen_reviews, start_time)
               THEN Append(cyc_reviews, review.state)
               ELSE cyc_reviews
         /\ cyc_rev_at' =
               IF watch = "events" /\ review_is_new(review, seen_reviews, start_time)
               THEN IF cyc_rev_at # -1 /\ review.submitted_at > cyc_rev_at
                    THEN review.submitted_at ELSE -1
               ELSE cyc_rev_at
         /\ IF review_is_new(review, seen_reviews, start_time)
            THEN LET event == review_event(review.state)
                 IN IF event = "none"
                    THEN /\ NoSend
                         /\ seen_reviews' = insert(seen_reviews, review.id)
                         /\ epc' = epc
                    ELSE \/ /\ SendOk(event, {<<"review", review.id>>}, review.submitted_at)
                            /\ seen_reviews' = insert(seen_reviews, review.id)
                            /\ epc' = epc
                         \/ /\ SendErr(event, {<<"review", review.id>>}, review.submitted_at)
                            /\ seen_reviews' = seen_reviews
                            /\ epc' = "tick"
            ELSE /\ NoSend
                 /\ seen_reviews' = seen_reviews
                 /\ epc' = epc
    /\ UNCHANGED <<mvars, hvars, cvars, wvars, start_time, seen_workflow_runs, seen_comments,
                   pr_is_merged, image_rx_alive, errs, fetched, civars>>

\* the review list is exhausted
ReviewsEnd ==
    /\ epc = "reviews"
    /\ epc' = "comments_fetch"
    /\ iter' = 0
    /\ NoSent
    /\ UNCHANGED <<mvars, hvars, cvars, wvars, start_time, seen_workflow_runs,
                   seen_comments, seen_reviews,
                   pr_is_merged, image_chan, image_rx_alive, errs, fetched,
                   cyc_send_failed, failed_items, retried, civars, cyvars>>

\* check_pr_events: get_pr_comments, Err arm
PrCommentsErr ==
    /\ epc = "comments_fetch"
    /\ errs' = NotedErr("comments")
    /\ fetched' = Noted(fetched, "comments")
    /\ epc' = "tick"
    /\ NoSent
    /\ UNCHANGED <<mvars, hvars, cvars, wvars, start_time, seen_workflow_runs,
                   seen_comments, seen_reviews,
                   pr_is_merged, iter, image_chan, image_rx_alive, cyc_send_failed,
                   failed_items, retried, civars, cyvars>>

\* check_pr_events: get_pr_comments, Ok arm: the for loop starts
GetPrComments ==
    /\ epc = "comments_fetch"
    /\ fetched' = Noted(fetched, "comments")
    /\ epc' = "comments"
    /\ iter' = 0
    /\ NoSent
    /\ UNCHANGED <<mvars, hvars, cvars, wvars, start_time, seen_workflow_runs,
                   seen_comments, seen_reviews,
                   pr_is_merged, image_chan, image_rx_alive, errs, cyc_send_failed,
                   failed_items, retried, civars, cyvars>>

\* one iteration of `for comment in comments`
CommentsNext ==
    /\ epc = "comments"
    /\ \E comment \in Comment :
         /\ comment.id > iter
         /\ iter' = comment.id
         /\ IF comment_is_new(comment, seen_comments, start_time)
            THEN \/ /\ SendOk("PrNewComment", {<<"comment", comment.id>>}, comment.created_at)
                    /\ seen_comments' = insert(seen_comments, comment.id)
                    /\ epc' = epc
                 \/ /\ SendErr("PrNewComment", {<<"comment", comment.id>>},
                            comment.created_at)
                    /\ seen_comments' = seen_comments
                    /\ epc' = "tick"
            ELSE /\ NoSend
                 /\ seen_comments' = seen_comments
                 /\ epc' = epc
    /\ UNCHANGED <<mvars, hvars, cvars, wvars, start_time, seen_workflow_runs, seen_reviews,
                   pr_is_merged, image_rx_alive, errs, fetched, civars, rvvars>>

\* the comment list is exhausted: check_pr_events returns
CommentsEnd ==
    /\ epc = "comments"
    /\ epc' = "tick"
    /\ iter' = 0
    /\ NoSent
    /\ UNCHANGED <<mvars, hvars, cvars, wvars, start_time, seen_workflow_runs,
                   seen_comments, seen_reviews,
                   pr_is_merged, image_chan, image_rx_alive, errs, fetched,
                   cyc_send_failed, failed_items, retried, civars, cyvars>>

\* image_receiver.try_recv() in App::update
ImageRecv ==
    /\ image_rx_alive
    /\ image_chan # <<>>
    /\ image_chan' = Tail(image_chan)
    /\ UNCHANGED <<mvars, hvars, cvars, wvars, start_time, seen_workflow_runs,
                   seen_comments, seen_reviews,
                   pr_is_merged, epc, iter, image_rx_alive, ehvars>>

\* ------------------------------------------------------ gui.rs: App::update

\* variant: an event received while an image is displayed does not restart
\* the animation
M_on_recv(a, event, loaded) ==
    IF a.state = "Displaying"
    THEN [a EXCEPT !.texture = IF loaded THEN event ELSE a.texture]
    ELSE [state |-> "FadingIn", animation_time |-> 0,
          texture |-> IF loaded THEN event ELSE a.texture]

\* lines 91-97, the Ok arm of try_recv: load_texture replaces the texture when
\* the embedded image is found and decoded (loaded) and leaves it otherwise
on_recv(a, event, loaded) ==
    [state |-> "FadingIn", animation_time |-> 0,
     texture |-> IF loaded THEN event ELSE a.texture]

\* line 99, `self.animation_time += dt`; the code compares animation_time with
\* 0.5 and 2.0 only, so the model keeps it up to HoldTime
elapsed(t, dt) == IF t + dt > HoldTime THEN HoldTime ELSE t + dt

\* lines 101-132, the match on self.state; input: the frame has input events
animate(a, input) ==
    CASE a.state = "Idle" -> a
      [] a.state = "FadingIn" ->
            IF a.animation_time >= FadeTime
            THEN [a EXCEPT !.state = "Displaying", !.animation_time = 0]
            ELSE a
      [] a.state = "Displaying" ->
            IF a.animation_time < HoldTime THEN a
            ELSE IF input
                 THEN [a EXCEPT !.state = "FadingOut", !.animation_time = 0]
                 ELSE a
      [] a.state = "FadingOut" ->
            IF a.animation_time >= FadeTime
            THEN [a EXCEPT !.state = "Idle", !.texture = NoTexture]
            ELSE a

\* App::update: one frame
Update ==
    /\ image_rx_alive
    /\ \E dt \in 1..MaxDt, input \in BOOLEAN, loaded \in BOOLEAN :
         LET got == image_chan # <<>>
             received == IF got THEN on_recv(app, Head(image_chan), loaded) ELSE app
             advanced == [received EXCEPT
                             !.animation_time = elapsed(received.animation_time, dt)]
         IN /\ app' = animate(advanced, input)
            /\ image_chan' = IF got THEN Tail(image_chan) ELSE image_chan
            /\ took' = got
            /\ frame_dt' = dt
    /\ UNCHANGED <<mvars, hvars, cvars, pr_review_ids, watch, start_time,
                   seen_workflow_runs, seen_comments, seen_reviews,
                   pr_is_merged, epc, iter, image_rx_alive, ehvars>>

\* sender.send(event) returns Ok on the sender's side of image_chan, whatever
\* the event
EventArrives ==
    /\ image_rx_alive
    /\ Len(image_chan) < MaxQueued
    /\ \E event \in NotificationEvent : image_chan' = Append(image_chan, event)
    /\ UNCHANGED <<mvars, hvars, cvars, wvars, start_time, seen_workflow_runs,
                   seen_comments, seen_reviews,
                   pr_is_merged, epc, iter, image_rx_alive, ehvars>>

\* the GUI ends and the Receiver<NotificationEvent> is dropped
ImageDrop ==
    /\ image_rx_alive
    /\ image_rx_alive' = FALSE
    /\ image_chan' = <<>>
    /\ UNCHANGED <<mvars, hvars, cvars, wvars, start_time, seen_workflow_runs,
                   seen_comments, seen_reviews,
                   pr_is_merged, epc, iter, ehvars>>

\* ---------------------------------------------------------- specifications

\* monitor::run with the consumer of gui_chan
Next ==
    \/ BuildClientFails
    \/ FetchBranchesFails
    \/ SyncBranchList
    \/ PollBranch
    \/ FinishCycle
    \/ GuiRecv
    \/ GuiDrop

Spec == Init /\ [][Next]_vars

\* monitor::run and the consumer with up to MaxQueued messages in flight,
\* started on a table that records both branches, in a directory that cannot
\* be written
ChanInit ==
    /\ MonitorInit
    /\ file = [kind |-> "table", content |-> [b \in BranchNames |-> StartRec]]
    /\ ~fs_writable
    /\ gui_cap = MaxQueued
    /\ EventCheckerInit
    /\ AppInit
    /\ WatchFetches

SpecChan == ChanInit /\ [][Next]_vars

\* the branch whose remote calls may take for ever
SlowBranch == "main"

\* one iteration of the for loop, for branch b
PollBranchOf(b) ==
    /\ mpc = "loop"
    /\ idx <= Len(remote_branch_names)
    /\ remote_branch_names[idx] = b
    /\ PollBranch

\* monitor::run while the GUI keeps running
FairNext ==
    \/ BuildClientFails
    \/ FetchBranchesFails
    \/ SyncBranchList
    \/ PollBranch
    \/ FinishCycle
    \/ GuiRecv

\* fair scheduling: the thread takes every step it can take and every remote
\* call returns, except the calls made for SlowBranch, which may never return
\* (`.await` at lines 86 and 91 then never resumes)
SpecFair ==
    /\ ChanInit
    /\ [][FairNext]_vars
    /\ WF_vars(SyncBranchList)
    /\ WF_vars(FinishCycle)
    /\ WF_vars(GuiRecv)
    /\ \A b \in BranchNames \ {SlowBranch} : WF_vars(PollBranchOf(b))

\* run_event_checker with the consumer of image_chan
EventsInit ==
    /\ MonitorInit
    /\ file.kind = "missing"
    /\ fs_writable
    /\ gui_cap = MaxChan
    /\ EventCheckerInit
    /\ AppInit
    /\ WatchFetches

EventsNext ==
    \/ Tick
    \/ WorkflowRunsErr
    \/ CheckWorkflowRun
    \/ GetPrForBranch
    \/ PrDetailsErr
    \/ CheckMerge
    \/ PrReviewsErr
    \/ GetPrReviews
    \/ ReviewsNext
    \/ ReviewsEnd
    \/ PrCommentsErr
    \/ GetPrComments
    \/ CommentsNext
    \/ CommentsEnd
    \/ ImageRecv
    \/ ImageDrop

SpecEvents == EventsInit /\ [][EventsNext]_vars

\* run_event_checker on a pull request with up to three reviews, started at
\* timestamp 0, the run keeping the record of each cycle's events
CycleInit ==
    /\ MonitorInit
    /\ file.kind = "missing"
    /\ fs_writable
    /\ gui_cap = MaxChan
    /\ EventCheckerInit
    /\ AppInit
    /\ watch = "events"
    /\ pr_review_ids = MoreReviewIds
    /\ start_time = 0

SpecCycle == CycleInit /\ [][EventsNext]_vars

\* App::update frame by frame, fed with arbitrary events
GuiInit ==
    /\ MonitorInit
    /\ file.kind = "missing"
    /\ fs_writable
    /\ gui_cap = MaxChan
    /\ EventCheckerInit
    /\ AppInit
    /\ WatchFetches

GuiNext ==
    \/ EventArrives
    \/ Update
    \/ ImageDrop

SpecGui == GuiInit /\ [][GuiNext]_vars

\* ------------------------------------------------- claims on monitor::run

\* a step of the for loop: the iteration ends, or the thread dies in it
PollStep ==
    /\ mpc = "loop"
    /\ idx <= Len(remote_branch_names)
    /\ (idx' = idx + 1 \/ mpc' = "panicked")

SyncStep == mpc = "sleep" /\ mpc' = "loop"

Polled == remote_branch_names[idx]

AsRecord(o) == [last_notified_sha |-> o.sha, last_notified_status |-> o.status]

\* C1: every message put on the channel comes from the loop iteration of a
\* branch that had a stored record; an iteration for a branch without one
\* (never seen, or removed) sends nothing, whatever sha and status it sees.
C1_NoMessageWithoutRecord ==
    [][ /\ (PollStep /\ branches[Polled] = NoRec) => gui_chan' = gui_chan
        /\ Len(gui_chan') > Len(gui_chan) => (PollStep /\ branches[Polled] # NoRec)
      ]_vars

\* a new branch has just been recorded with a non-empty label, nothing sent
C1_Witness ==
    /\ mpc = "loop" /\ idx = 2 /\ state_changed /\ ~cyc_sent /\ rx_alive
    /\ gui_chan = <<>>
    /\ branches[remote_branch_names[1]] # NoRec

\* C2: for a branch with a stored record, an iteration sends exactly one
\* message and overwrites the record with the observed (sha, status) iff the
\* observed status is non-empty and sha or status differs from the record;
\* otherwise nothing is sent and the record is unchanged.
C2_SendIffChanged ==
    [][ (PollStep /\ branches[Polled] # NoRec) =>
          LET cur == branches[Polled]
              o == last_obs'[Polled]
              changed == /\ o.sha \in Shas
                         /\ o.status # ""
                         /\ (o.sha # cur.last_notified_sha \/ o.status # cur.last_notified_status)
          IN IF changed
             THEN /\ gui_chan' = Append(gui_chan, o.status)
                  /\ branches'[Polled] = AsRecord(o)
             ELSE /\ gui_chan' = gui_chan
                  /\ branches'[Polled] = cur
      ]_vars

\* C3: a cycle that sees the branch list and, per branch, the sha and status
\* that the previous cycle saw, sends no message and leaves the table as it was.
C3_UnchangedRemoteIsSilent ==
    (mpc = "loop" /\ same_obs) => (~cyc_sent /\ ~cyc_mutated)

\* a second cycle has run over the same answers for a recorded branch
C3_Witness ==
    /\ mpc = "loop" /\ same_obs /\ idx > Len(remote_branch_names)
    /\ \E b \in Range(remote_branch_names) :
         branches[b] # NoRec /\ last_obs[b] = [sha |-> branches[b].last_notified_sha,
                                               status |-> branches[b].last_notified_status]

\* C4: a branch first polled with the label "" is stored without a message,
\* and its next poll, with the label "green", sends "green".
C4_PendingThenSuccessNotifies ==
    [][ PollStep =>
          LET o == last_obs'[Polled]
          IN /\ (last_obs[Polled] \in {NoObs, Removed} /\ branches[Polled] = NoRec
                   /\ o.sha \in Shas /\ o.status = "")
                => (branches'[Polled] = AsRecord(o) /\ gui_chan' = gui_chan)
             /\ (first_none[Polled] /\ o.sha \in Shas /\ o.status = "green")
                => gui_chan' = Append(gui_chan, "green")
      ]_vars

\* C5: after an iteration that fetched sha and status of a branch, the
\* branch's record is the observed (sha, status), the label "" included.
C5_RecordEqualsObserved ==
    [][ (PollStep /\ last_obs'[Polled].sha \in Shas) =>
          branches'[Polled] = AsRecord(last_obs'[Polled])
      ]_vars

\* C6: when the branch list is fetched, the record of every branch absent
\* from it is removed and stays absent for the cycle, no message is sent for
\* it, and when such a branch is listed again it is polled as a new branch
\* (no record, no message).
C6_RemovedWhenAbsent ==
    [][ /\ SyncStep =>
            /\ \A b \in BranchNames \ Range(remote_branch_names') : branches'[b] = NoRec
            /\ gui_chan' = gui_chan
        /\ (mpc = "loop" /\ mpc' # "sleep") =>
            \A b \in BranchNames \ Range(remote_branch_names) : branches'[b] = NoRec
        /\ Len(gui_chan') > Len(gui_chan) => (PollStep /\ Polled \in Range(remote_branch_names))
        /\ (PollStep /\ last_obs[Polled] = Removed) =>
            (branches[Polled] = NoRec /\ gui_chan' = gui_chan)
      ]_vars

\* a recorded branch has just disappeared from the list and lost its record
C6_Witness ==
    /\ mpc = "loop" /\ cyc_mutated /\ ~cyc_sent
    /\ \E b \in BranchNames \ Range(remote_branch_names) :
         last_obs[b] = Removed /\ branches[b] = NoRec

\* C8: with the Receiver dropped, a loop iteration of monitor::run still
\* leaves the polling loop running.
C8_SendFailureNotFatal ==
    [][ (PollStep /\ ~rx_alive) => mpc' = "loop" ]_vars

\* a loop iteration whose commit fetch answered None
NoneStep ==
    /\ mpc = "loop"
    /\ idx <= Len(remote_branch_names)
    /\ idx' # idx
    /\ last_obs'[Polled] = ShaNone

\* C11: a loop iteration whose commit fetch fails leaves the table, the
\* channel and state_changed as they were and goes on with the next branch of
\* the list; the loop visits the branches one by one and the cycle ends only
\* after the last of them.
C11_CommitFetchFailureSkipsBranch ==
    [][ /\ NoneStep =>
            /\ branches' = branches
            /\ gui_chan' = gui_chan
            /\ state_changed' = state_changed
            /\ mpc' = "loop"
            /\ idx' = idx + 1
        /\ (mpc = "loop" /\ mpc' = "loop") => idx' \in {idx, idx + 1}
        /\ (mpc = "loop" /\ mpc' = "sleep") => idx > Len(remote_branch_names)
      ]_vars

\* the commit fetch of the first listed branch failed, its record is still
\* there, and the second branch was then polled and a message sent for it
C11_Witness ==
    /\ mpc = "loop" /\ Len(remote_branch_names) = 2 /\ idx = 3
    /\ last_obs[remote_branch_names[1]] = ShaNone
    /\ branches[remote_branch_names[1]] # NoRec
    /\ last_obs[remote_branch_names[2]].sha \in Shas
    /\ cyc_sent

\* C12: while the thread is between cycles, a step that does not start the
\* loop over a fetched list (building the client failed, or the branch-list
\* fetch failed) modifies no record and not the file and sends no message;
\* the thread stays between cycles, from where the next cycle starts.
C12_ListFetchFailureKeepsState ==
    [][ mpc = "sleep" =>
          /\ mpc' \in {"sleep", "loop"}
          /\ mpc' = "sleep" =>
                /\ branches' = branches
                /\ file' = file
                /\ Len(gui_chan') <= Len(gui_chan)
                /\ remote_branch_names' = remote_branch_names
      ]_vars

\* after a cycle that recorded a branch and sent a message, the start of a
\* cycle has failed: record and message are still there
C12_Witness ==
    /\ mpc = "sleep" /\ prev_names = NoList
    /\ gui_chan # <<>>
    /\ \E b \in BranchNames : last_obs[b].sha \in Shas /\ branches[b] # NoRec

\* monitor::run has loaded the state and no cycle has fetched a list or
\* observed a branch yet
AtStartup ==
    /\ mpc = "sleep"
    /\ prev_names = NoList
    /\ remote_branch_names = <<>>
    /\ gui_chan = <<>>
    /\ \A b \in BranchNames : last_obs[b] = NoObs

\* C24: when the state file is missing, unreadable or unparsable at startup,
\* monitor::run holds an empty table and its thread is at the start of the
\* poll loop, from where a cycle can begin: the load failure ends nothing.
C24_LoadFailureStartsEmpty ==
    (AtStartup /\ file.kind \in {"missing", "corrupt"})
        => /\ branches = EmptyState
           /\ ~state_changed
           /\ ENABLED SyncBranchList

\* started on a file that could not be parsed, the thread is polling: it has
\* recorded the first listed branch and is at the second
C24_Witness ==
    /\ file.kind = "corrupt"
    /\ mpc = "loop"
    /\ idx = 2
    /\ branches[remote_branch_names[1]] # NoRec

\* a poll cycle has run to its end and no cycle has started or failed since
CycleEnded == mpc = "sleep" /\ prev_names # NoList

\* C25: at the end of every poll cycle in a directory that can be written,
\* the state file holds exactly the table in memory (a missing file standing
\* for the empty table); a record removed in the cycle is gone from the file.
C25_FileHoldsTableAfterCycle ==
    (CycleEnded /\ fs_writable) => load_state(file) = branches

\* b is listed in the running cycle and its iteration has not yet run
PendingPoll(b) ==
    /\ mpc = "loop"
    /\ b \in { remote_branch_names[i] : i \in idx..Len(remote_branch_names) }

\* C13: although the remote calls for SlowBranch may never return, every
\* other branch that is listed in a cycle is eventually polled.
C13_SlowCallDoesNotStall ==
    \A b \in BranchNames \ {SlowBranch} : PendingPoll(b) ~> ~PendingPoll(b)

\* C14 (monitor::run): a cycle starts (the list is replaced, the loop
\* position goes back) only when no cycle is in progress; state.branches and
\* the state file change only in steps of the polling thread, never in a
\* step of the consumer.
C14_OneCycleAtATime ==
    [][ /\ (remote_branch_names' # remote_branch_names \/ idx' < idx) => SyncStep
        /\ (branches' # branches \/ file' # file) =>
              (SyncStep \/ PollStep \/ (mpc = "loop" /\ mpc' = "sleep"))
        /\ (Len(gui_chan') < Len(gui_chan) \/ rx_alive' # rx_alive) =>
              (branches' = branches /\ file' = file /\ mpc' = mpc /\ idx' = idx)
      ]_vars

\* a later cycle is in progress after an earlier one has finished
C14_Witness ==
    mpc = "loop" /\ same_obs /\ idx = 2 /\ ~state_changed

C16_FailureTakesPrecedence ==
    /\ []("failure" \in ci_new => ci_event = "CiFailure")
    /\ [][ /\ (/\ Len(image_chan') > Len(image_chan)
               /\ image_chan'[Len(image_chan')] \in {"CiSuccess", "CiFailure"}) =>
                  /\ epc = "workflow" /\ epc' # "workflow"
                  /\ image_chan'[Len(image_chan')] = ci_event'
           /\ (epc' = "workflow" /\ epc # "workflow") => epc = "tick"
         ]_vars

\* one new run failed, another succeeded, and CiFailure is on the channel
C16_Witness ==
    /\ ci_new = {"failure", "success"}
    /\ ci_event = "CiFailure"
    /\ image_chan = <<"CiFailure">>

\* C17: when the new completed runs contain a run that concluded timed_out
\* or cancelled, the event of check_workflow_run is CiFailure (and so never
\* CiSuccess), whatever the other runs concluded.
C17_TimedOutCancelledAreFailure ==
    (ci_new \cap {"timed_out", "cancelled"} # {}) => ci_event = "CiFailure"

\* a cycle of the record of events in which, so far, every fetch answered Ok
\* and every send returned Ok
CleanCycle == watch = "events" /\ errs = {} /\ ~cyc_send_failed

\* C18: a cycle without failed fetch or send whose new reviews were, in time
\* order, COMMENTED, CHANGES_REQUESTED, APPROVED has emitted PrApproved and no
\* PrChangesRequested.
C18_LaterApprovalOverrides ==
    (/\ epc = "tick" /\ CleanCycle
     /\ cyc_reviews = <<"COMMENTED", "CHANGES_REQUESTED", "APPROVED">>
     /\ cyc_rev_at # -1)
    => ("PrApproved" \in cyc_events /\ "PrChangesRequested" \notin cyc_events)

\* C19: a cycle without failed fetch or send on an unmerged pull request that
\* found no new completed workflow run and whose only new review was one
\* COMMENTED review has emitted PrNewComment.
C19_LoneCommentedReviewNotifies ==
    (/\ epc = "tick" /\ CleanCycle
     /\ ~pr_is_merged
     /\ ci_event = "none" /\ ci_new = {}
     /\ cyc_reviews = <<"COMMENTED">>
     /\ "PrMerged" \notin cyc_events)
    => "PrNewComment" \in cyc_events

\* C20: in a cycle in which check_workflow_run has emitted CiFailure, no
\* PR-level event is emitted (cycles without failed fetch or send).
C20_CiFailurePreemptsPrEvents ==
    (CleanCycle /\ "CiFailure" \in cyc_events) => cyc_events \cap PrEvents = {}

\* C14 (run_event_checker): a cycle starts only from the tick, where the
\* previous one has ended; the EventCheckerState changes only in steps of the
\* event checker, never in a step of the consumer.
C14_EventCycleAtATime ==
    [][ /\ (epc' = "workflow" /\ epc # "workflow") => epc = "tick"
        /\ (Len(image_chan') < Len(image_chan) \/ image_rx_alive' # image_rx_alive) =>
              /\ epc' = epc
              /\ <<seen_workflow_runs, seen_comments, seen_reviews, pr_is_merged>>'
                   = <<seen_workflow_runs, seen_comments, seen_reviews, pr_is_merged>>
      ]_vars

\* C7: once pr_is_merged is set it stays set, check_pr_events is never
\* entered again, and no PR-level event is put on the channel any more.
C7_MergedIsTerminal ==
    [][ pr_is_merged =>
          /\ pr_is_merged'
          /\ epc' \in {"tick", "workflow"}
          /\ Len(image_chan') > Len(image_chan) =>
                image_chan'[Len(image_chan')] \notin PrEvents
      ]_vars

\* after the merge was recorded a later cycle has run its workflow check
C7_Witness ==
    pr_is_merged /\ epc = "tick" /\ "workflow" \in fetched /\ "pr" \notin fetched

\* C9: an item whose send returned Err is never the subject of another send
\* (retried records a send attempted for an item of the latest failed send).
C9_FailedSendNotRetried == ~retried

SeenItems ==
    { <<"run", i>> : i \in seen_workflow_runs }
    \cup { <<"review", i>> : i \in seen_reviews }
    \cup { <<"comment", i>> : i \in seen_comments }

\* the items that carry an identifier
IdItems(items) == { it \in items : it[1] # "merge" }

\* sender.send returned Ok in this step
SentOk == Len(image_chan') > Len(image_chan)

\* C21: the three seen sets only grow, and pr_is_merged never goes back from
\* true to false, whatever step run_event_checker takes.
C21_SeenSetsOnlyGrow ==
    [][ /\ seen_workflow_runs \subseteq seen_workflow_runs'
        /\ seen_reviews \subseteq seen_reviews'
        /\ seen_comments \subseteq seen_comments'
        /\ (pr_is_merged => pr_is_merged') ]_vars

\* every set holds two identifiers, the second inserted after the first, and
\* the pull request was seen merged after them
C21_Witness ==
    /\ seen_workflow_runs = RunIds
    /\ seen_reviews = ReviewIds
    /\ seen_comments = CommentIds
    /\ pr_is_merged

\* C22: an event that sender.send accepted was sent for identifiers that were
\* in no seen set before the step and are all in a seen set after it, and no
\* identifier ever leaves a seen set: so each run id, review id and comment
\* id is behind at most one accepted event.
C22_AtMostOneEventPerId ==
    [][ /\ SentOk => /\ IdItems(sent_items') \cap SeenItems = {}
                     /\ IdItems(sent_items') \subseteq SeenItems'
        /\ SeenItems \subseteq SeenItems' ]_vars

\* review 1 was notified in an earlier cycle (its event is still queued and
\* review 2 is not seen), and the scan of this cycle passed it silently
C22_Witness ==
    /\ epc = "reviews"
    /\ iter = 1
    /\ seen_reviews = {1}
    /\ sent_items = {}
    /\ image_chan = <<"PrApproved">>

\* C23: whatever check_pr_events hands to sender.send, for a merge, a review
\* or a comment, is dated after start_time: nothing dated at or before it
\* causes an event.
C23_NothingFromBeforeStart ==
    (\E it \in sent_items : it[1] \in {"merge", "review", "comment"})
        => sent_at > start_time

\* review 1 was scanned and is not new although no seen set holds it: it is
\* dated at or before start_time, and nothing was sent for it
C23_Witness ==
    /\ epc = "reviews"
    /\ iter = 1
    /\ seen_reviews = {}
    /\ sent_items = {}
    /\ image_chan = <<>>
    /\ image_rx_alive

\* C26: check_workflow_run hands at most one event to sender.send in a cycle
\* (run events leave in its step only, one per step, and the step is taken
\* once per tick); after it the completed runs of its answer are all in
\* seen_workflow_runs, event or not; and what a step adds to the set are
\* completed runs of its answer, never runs still in progress.
C26_OneCiEventAllCompletedSeen ==
    /\ [](ci_done \subseteq seen_workflow_runs)
    /\ [][ /\ (seen_workflow_runs' \ seen_workflow_runs) \subseteq ci_done'
           /\ (seen_workflow_runs' \ seen_workflow_runs) \cap ci_open' = {}
           /\ Len(image_chan') <= Len(image_chan) + 1
           /\ (SentOk /\ image_chan'[Len(image_chan')] \in {"CiSuccess", "CiFailure"})
                  => (epc = "workflow" /\ epc' # "workflow")
           /\ (epc' = "workflow" /\ epc # "workflow") => epc = "tick" ]_vars

\* the answer held a cancelled run and a run in progress: the first is seen,
\* the second is not, and no event was sent
C26_Witness ==
    /\ ci_done = {1}
    /\ ci_open = {2}
    /\ ci_new = {"cancelled"}
    /\ ci_event = "none"
    /\ seen_workflow_runs = {1}
    /\ sent_items = {}
    /\ image_chan = <<>>

\* a frame takes at most one event, and the state comes to Idle from
\* FadingOut only
OneEventPerFrame ==
    /\ image_rx_alive' => Len(image_chan') >= Len(image_chan) - 1
    /\ (app'.state = "Idle" /\ app.state # "Idle") => app.state = "FadingOut"

====
